---- MODULE Spec2Model ----
(***************************************************************************)
(* Model of src/src/mainloop.rs: the MainLoop facade (run, run_one, quit,   *)
(* call_asap), the thread-local current_loop registry and the free         *)
(* functions call_internal and terminate that reach the running loop.       *)
(*                                                                         *)
(* Each thread is a call stack of activations.  The bottom ("main") is the  *)
(* client's top-level code, which may call any operation of the API; a      *)
(* "loop" activation is MainLoop::with_current_loop with the closure of    *)
(* run or run_one, a "cb" activation is a callback the backend is          *)
(* executing.  A callback's body is a script: a fixed sequence of API       *)
(* calls.  A panic unwinds the stack one activation per step.               *)
(*                                                                         *)
(* crate::ruststd::Backend is not part of the sources at hand; push and     *)
(* run_one are modelled from the backend contract of the specification     *)
(* (section 4.3): a FIFO of pending callbacks, an iteration executes the    *)
(* callbacks that were pending when it started.  Delayed and Interval       *)
(* callbacks carry the time they are due; an iteration fires those due at   *)
(* its start, and an Interval callback that returns true is due again one   *)
(* period after the time it was due.                                        *)
(*                                                                         *)
(* Specifications: Spec (one thread, callbacks with any body), FairSpec     *)
(* (the same without panic!, a call in progress goes on), SpecTests (the    *)
(* callbacks of the tests borrowed and asap_static), SpecTimers (the tests  *)
(* after and interval, with a clock) and SpecThreads (two threads).         *)
(***************************************************************************)
EXTENDS Integers, Sequences, FiniteSets, TLC

\* Bounds of the model.
MaxLoops == 2
MaxCbs == 2
MaxSteps == 2
MaxTime == 9
MaxDelay == 3

\* The durations of the test interval, in units of 50 ms, and the firing at
\* which its second callback calls terminate.
Period150 == 3
Period100 == 2
Firings == 4

Threads == {"A", "B"}
Loops == 1 .. MaxLoops
None == 0

VARIABLES
    nloops,        \* number of MainLoop values constructed so far
    owner,         \* owner[l]: the thread that constructed loop l (MainLoop is !Send)
    terminated,    \* terminated[l]: MainLoop.terminated
    queue,         \* queue[l]: the backend's pending callbacks (ids), in push order
    reg,           \* reg[id]: what callback id is, and how far it got
    current_loop,  \* current_loop[t]: the thread-local registry, None or a loop
    stack,         \* stack[t]: the activations of thread t, innermost last
    panicking,     \* panicking[t]: "none", or the payload of the panic unwinding t
    last,          \* last[t]: the outcome of the latest call of the API by thread t
    x,             \* the Cell the callbacks of the tests share
    now,           \* the clock (Instant::now), in units of 50 ms
    timers         \* timers[id]: the timing of callback id, when it is a timed one

vars == <<nloops, owner, terminated, queue, reg, current_loop, stack,
          panicking, last, x, now, timers>>

----------------------------------------------------------------------------
\* Client code: the calls a callback body or the top level makes.

Op(o, l, n, a, k) == [op |-> o, loop |-> l, name |-> n, arg |-> a, caught |-> k]

\* The callbacks of the tests borrowed and asap_static.
TestScripts == {"term", "outer", "inner"}

\* The callbacks of the test interval: tick_y (lines 153-156) counts and
\* returns false, tick_x (lines 157-162) counts, calls terminate from its
\* fourth firing on, and returns true.  The count of a callback is the number
\* of its firings, timers[id].fired.
IntervalScripts == {"tick_x", "tick_y"}

\* Mutation: line 155 returning true, both callbacks ask to fire again.
AgainAlways(n) == TRUE

\* The value the Interval callback n returns: fire again?
Again(n) == n = "tick_x"

\* The duration the test registers the Interval callback n with.
Period(n) == IF n = "tick_x" THEN Period100 ELSE Period150

\* The body of the test callback n.
Script(n) ==
    CASE n = "term"  -> <<Op("set", 0, "-", 1, FALSE),
                          Op("terminate", 0, "-", 0, FALSE)>>
      [] n = "outer" -> <<Op("check", 0, "-", 0, FALSE),
                          Op("set", 0, "-", 1, FALSE),
                          Op("submit", 0, "inner", 0, FALSE)>>
      [] n = "inner" -> <<Op("check", 0, "-", 1, FALSE),
                          Op("set", 0, "-", 2, FALSE),
                          Op("terminate", 0, "-", 0, FALSE)>>
      [] n = "tick_x" -> <<Op("terminate_at", 0, "-", Firings, FALSE)>>
      [] OTHER       -> <<>>

Top(t) == stack[t][Len(stack[t])]
Pop(t) == SubSeq(stack[t], 1, Len(stack[t]) - 1)
AtMain(t) == stack[t] = <<>>

\* What the top level may call: it catches the panics of run and run_one.
MainMay(op) ==
    /\ op.op \in {"quit", "call_asap", "call_after", "call_interval", "submit",
                 "terminate", "run", "run_one"}
    /\ op.op \in {"run", "run_one"} => op.caught

\* What the body of a "free" callback may call: any sequence of at most
\* MaxSteps calls of the API, a panic among them.
FreeMay(op) ==
    /\ op.op \in {"quit", "call_asap", "submit", "terminate", "run", "run_one", "panic"}
    /\ op.op \in {"call_asap", "submit"} => op.name = "free"

\* Thread t is about to make the call op.
ClientAt(t, op) ==
    /\ panicking[t] = "none"
    /\ op.loop # 0 => (op.loop <= nloops /\ owner[op.loop] = t)
    /\ IF AtMain(t)
       THEN MainMay(op)
       ELSE /\ Top(t).type = "cb"
            /\ IF reg[Top(t).cb].name = "free"
               THEN Top(t).pc <= MaxSteps /\ FreeMay(op)
               ELSE /\ Top(t).pc <= Len(Script(reg[Top(t).cb].name))
                    /\ Script(reg[Top(t).cb].name)[Top(t).pc] = op

\* The stack of t once the call has returned to its caller.
Advance(t) ==
    IF AtMain(t) THEN stack[t]
    ELSE [stack[t] EXCEPT ![Len(stack[t])].pc = @ + 1]

\* The callback executing on t, 0 at the top level.
Running(t) == IF AtMain(t) THEN 0 ELSE Top(t).cb

\* The activation of with_current_loop for run or run_one on loop l.  pc: 0 at
\* the flag test of the closure, 1 inside Backend::run_one, 2 when the closure
\* has returned.  mark: the number of callbacks registered when it was entered.
LoopFrame(l, kind, k) ==
    [type |-> "loop", kind |-> kind, loop |-> l, pc |-> 0, caught |-> k,
     todo |-> 0, cb |-> 0, mark |-> Len(reg)]

\* The activation of callback id, called by the backend of loop l.
CbFrame(l, id) ==
    [type |-> "cb", kind |-> "-", loop |-> l, pc |-> 1, caught |-> FALSE,
     todo |-> 0, cb |-> id, mark |-> 0]

Event(e, l, v) == [ev |-> e, loop |-> l, val |-> v]

\* The timing the backend keeps for a Delayed or Interval callback pushed on
\* loop l at time at with duration d: when it is due next, how many times it
\* has fired, and whether the iteration in progress is to fire it.  kind "-": not a timed callback.
Timer(l, kind, d, at) ==
    [loop |-> l, kind |-> kind, period |-> d, at |-> at, due |-> at + d,
     fired |-> 0, sel |-> FALSE]

NoTimer == [loop |-> 0, kind |-> "-", period |-> 0, at |-> 0, due |-> 0,
            fired |-> 0, sel |-> FALSE]

----------------------------------------------------------------------------
Init ==
    /\ nloops = 0
    /\ owner = [l \in Loops |-> "A"]
    /\ terminated = [l \in Loops |-> FALSE]
    /\ queue = [l \in Loops |-> <<>>]
    /\ reg = <<>>
    /\ current_loop = [t \in Threads |-> None]
    /\ stack = [t \in Threads |-> <<>>]
    /\ panicking = [t \in Threads |-> "none"]
    /\ last = [t \in Threads |-> Event("none", 0, "-")]
    /\ x = 0
    /\ now = 0
    /\ timers = [id \in 1 .. MaxCbs |-> NoTimer]

\* MainLoop::new
New(t) ==
    /\ AtMain(t)
    /\ panicking[t] = "none"
    /\ nloops < MaxLoops
    /\ nloops' = nloops + 1
    /\ owner' = [owner EXCEPT ![nloops + 1] = t]
    /\ terminated' = [terminated EXCEPT ![nloops + 1] = FALSE]
    /\ queue' = [queue EXCEPT ![nloops + 1] = <<>>]
    /\ UNCHANGED <<reg, current_loop, stack, panicking, last, x, now, timers>>

\* Mutation: line 48 as a toggle of the flag.
quitToggle(l) == [terminated EXCEPT ![l] = ~@]

\* MainLoop::quit: the termination flags after quit() on loop l.
quit(l) == [terminated EXCEPT ![l] = TRUE]

Quit(t) ==
    \E l \in Loops :
        /\ ClientAt(t, Op("quit", l, "-", 0, FALSE))
        /\ terminated' = quit(l)
        /\ last' = [last EXCEPT ![t] = Event("unit", 0, "-")]
        /\ stack' = [stack EXCEPT ![t] = Advance(t)]
        /\ UNCHANGED <<nloops, owner, queue, reg, current_loop, panicking, x, now, timers>>

\* Backend::push of an Immediate callback on loop l's backend: the callback is
\* queued and not run; p is the callback that made the call (0: the top level).
BackendPushQueue(l) == [queue EXCEPT ![l] = Append(@, Len(reg) + 1)]

BackendPushReg(n, p) ==
    Append(reg, [name |-> n, parent |-> p, st |-> "pending"])

\* MainLoop::call_asap
CallAsap(t, Names) ==
    \E l \in Loops, n \in Names :
        /\ ClientAt(t, Op("call_asap", l, n, 0, FALSE))
        /\ Len(reg) < MaxCbs
        /\ queue' = BackendPushQueue(l)
        /\ reg' = BackendPushReg(n, Running(t))
        /\ last' = [last EXCEPT ![t] = Event("ok", l, "-")]
        /\ stack' = [stack EXCEPT ![t] = Advance(t)]
        /\ UNCHANGED <<nloops, owner, terminated, current_loop, panicking, x, now, timers>>

\* Mutation: lines 19-21 with one registry for the process, which names the
\* first loop whenever some loop is running.
AmbientLoopFirst(t) == IF current_loop[t] = None THEN None ELSE 1

\* Mutation: line 20 without the error, an empty registry falls back to the
\* loop constructed last.
AmbientLoopOrLatest(t) == IF current_loop[t] = None THEN nloops ELSE current_loop[t]

\* Mutation: line 28 without the test, an empty registry falls back to the
\* first loop.
AmbientLoopOrFirst(t) == IF current_loop[t] = None THEN 1 ELSE current_loop[t]

\* Mutation: line 36 as a plain static, one registry for all threads: a thread
\* with no loop of its own finds the loop another thread is running.
AmbientLoopShared(t) ==
    IF current_loop[t] # None THEN current_loop[t]
    ELSE IF \E u \in Threads : current_loop[u] # None
         THEN current_loop[CHOOSE u \in Threads : current_loop[u] # None]
         ELSE None

\* call_internal, lines 19-21: the loop the registry of thread t names.
AmbientLoop(t) == current_loop[t]

\* call_internal: the ambient submission of an Immediate callback.
CallInternal(t, Names) ==
    \E n \in Names :
        /\ ClientAt(t, Op("submit", 0, n, 0, FALSE))
        /\ IF AmbientLoop(t) = None
           THEN /\ last' = [last EXCEPT ![t] = Event("err", 0, "NoMainLoop")]
                /\ UNCHANGED <<queue, reg>>
           ELSE /\ Len(reg) < MaxCbs
                /\ queue' = BackendPushQueue(AmbientLoop(t))
                /\ reg' = BackendPushReg(n, Running(t))
                /\ last' = [last EXCEPT ![t] = Event("ok", AmbientLoop(t), "-")]
        /\ stack' = [stack EXCEPT ![t] = Advance(t)]
        /\ UNCHANGED <<nloops, owner, terminated, current_loop, panicking, x, now, timers>>

\* Mutation: terminate as a request that takes effect at once, ending the
\* callback that makes it.
TerminateNow(t) ==
    /\ ClientAt(t, Op("terminate", 0, "-", 0, FALSE))
    /\ terminated' = IF AmbientLoop(t) # None THEN quit(AmbientLoop(t)) ELSE terminated
    /\ last' = [last EXCEPT ![t] = Event("unit", 0, "-")]
    /\ stack' = [stack EXCEPT ![t] = IF AtMain(t) THEN stack[t] ELSE Pop(t)]
    /\ UNCHANGED <<nloops, owner, queue, reg, current_loop, panicking, x, now, timers>>

\* terminate: the ambient termination request.
Terminate(t) ==
    /\ ClientAt(t, Op("terminate", 0, "-", 0, FALSE))
    /\ terminated' = IF AmbientLoop(t) # None THEN quit(AmbientLoop(t)) ELSE terminated
    /\ last' = [last EXCEPT ![t] = Event("unit", 0, "-")]
    /\ stack' = [stack EXCEPT ![t] = Advance(t)]
    /\ UNCHANGED <<nloops, owner, queue, reg, current_loop, panicking, x, now, timers>>

\* Mutation: line 60 left out.
AlreadyTerminatedNever(l) == FALSE

\* Mutation: line 60 with the test negated.
AlreadyTerminatedInverted(l) == ~terminated[l]

\* Mutation: lines 60 and 62 in the other order, the flag is tested only when
\* no loop is registered on the thread of the loop.
AlreadyTerminatedUnlessReentrant(l) == terminated[l] /\ current_loop[owner[l]] = None

\* with_current_loop, line 60: the call returns at once on a terminated loop.
AlreadyTerminated(l) == terminated[l]

\* Mutation: line 75 with the negation lost.
ContinueInverted(l) == terminated[l]

\* run, line 75: the condition of the while loop.
Continue(l) == ~terminated[l]

\* Mutation: line 62 clearing the registry before it panics.
RejectedRegistryCleared(t) == [current_loop EXCEPT ![t] = None]

\* with_current_loop, line 62: the registry as the panic of a rejected call
\* leaves it.
RejectedRegistry(t) == current_loop

\* Mutation: line 62 without the test, a second loop registers over the first.
ReentrantNever(t) == FALSE

\* with_current_loop, line 62: is a loop registered on this thread already?
Reentrant(t) == current_loop[t] # None

\* Mutation: line 63 storing the first loop, whichever loop is run.
RegisterFirst(t, l) == [current_loop EXCEPT ![t] = 1]

\* with_current_loop, line 63
Register(t, l) == [current_loop EXCEPT ![t] = l]

\* Mutation: line 68 left out, the registry keeps the loop that has exited.
ClearRegistryNot(t) == current_loop

\* Mutation: lines 65-68 without catch_unwind, only a closure that returns is
\* followed by the clearing of the registry.
ClearRegistryOnReturn(t) ==
    IF panicking[t] = "none" THEN [current_loop EXCEPT ![t] = None] ELSE current_loop

\* with_current_loop, line 68
ClearRegistry(t) == [current_loop EXCEPT ![t] = None]

\* Mutation: line 69 left out, the panic of the closure is swallowed.
ResumeUnwindNot(r) == "none"

\* with_current_loop, line 69: the panic that leaves with_current_loop when the
\* closure ended with r ("none": it returned).
ResumeUnwind(r) == r

\* MainLoop::run and MainLoop::run_one, up to the call of the closure
\* (with_current_loop, lines 59-65).  k: the call site catches a panic.
WithCurrentLoop(t) ==
    \E l \in Loops, kind \in {"run", "run_one"}, k \in BOOLEAN :
        /\ ClientAt(t, Op(kind, l, "-", 0, k))
        /\ IF AlreadyTerminated(l)
           THEN /\ stack' = [stack EXCEPT ![t] = Advance(t)]
                /\ last' = [last EXCEPT ![t] = Event("skipped", l, kind)]
                /\ UNCHANGED <<current_loop, panicking>>
           ELSE IF Reentrant(t)
           THEN /\ IF k
                   THEN /\ stack' = [stack EXCEPT ![t] = Advance(t)]
                        /\ last' = [last EXCEPT ![t] = Event("caught", l, "Reentrant")]
                        /\ UNCHANGED panicking
                   ELSE /\ panicking' = [panicking EXCEPT ![t] = "Reentrant"]
                        /\ last' = [last EXCEPT ![t] = Event("raised", l, "Reentrant")]
                        /\ UNCHANGED stack
                /\ current_loop' = RejectedRegistry(t)
           ELSE /\ current_loop' = Register(t, l)
                /\ stack' = [stack EXCEPT ![t] = Append(Advance(t), LoopFrame(l, kind, k))]
                /\ last' = [last EXCEPT ![t] = Event("registered", l, kind)]
                /\ UNCHANGED panicking
        /\ UNCHANGED <<nloops, owner, terminated, queue, reg, x, now, timers>>

InLoop(t) == stack[t] # <<>> /\ Top(t).type = "loop" /\ panicking[t] = "none"

SetTop(t, f) == [stack EXCEPT ![t] = [@ EXCEPT ![Len(@)] = f]]

\* The timed callbacks of loop l that are due: pending, with their time reached.
DueTimers(l) ==
    {id \in DOMAIN reg : /\ timers[id].loop = l
                         /\ reg[id].st = "pending"
                         /\ timers[id].due <= now}

\* Backend::run_one(blocking) on loop l: the number of callbacks due, which this
\* iteration will execute.  Every Immediate callback pending is due.
Due(l) == Len(queue[l]) + Cardinality(DueTimers(l))

\* Backend::run_one on loop l starts: the timed callbacks due now are the ones
\* this iteration fires.
Selected(l) == [id \in DOMAIN timers |->
                   IF id \in DueTimers(l) THEN [timers[id] EXCEPT !.sel = TRUE]
                   ELSE timers[id]]

\* The closure of run (lines 75-77): one test of the flag, and either the start
\* of a blocking backend iteration or the end of the closure.  A blocking
\* iteration with nothing pending waits, and nothing on this thread can wake it.
RunBody(t) ==
    /\ InLoop(t)
    /\ Top(t).kind = "run"
    /\ Top(t).pc = 0
    /\ IF ~Continue(Top(t).loop)
       THEN /\ stack' = SetTop(t, [Top(t) EXCEPT !.pc = 2])
            /\ UNCHANGED timers
       ELSE /\ Due(Top(t).loop) > 0
            /\ stack' = SetTop(t, [Top(t) EXCEPT !.pc = 1, !.todo = Len(queue[Top(t).loop])])
            /\ timers' = Selected(Top(t).loop)
    /\ UNCHANGED <<nloops, owner, terminated, queue, reg, current_loop, panicking,
                   last, x, now>>

\* Mutation: run_one as a loop of one round, which sets the flag when it starts
\* its iteration.
RunOneBodyQuits(t) ==
    /\ InLoop(t)
    /\ Top(t).kind = "run_one"
    /\ Top(t).pc = 0
    /\ stack' = SetTop(t, [Top(t) EXCEPT !.pc = 1, !.todo = Len(queue[Top(t).loop])])
    /\ timers' = Selected(Top(t).loop)
    /\ terminated' = quit(Top(t).loop)
    /\ UNCHANGED <<nloops, owner, queue, reg, current_loop, panicking, last, x, now>>

\* The closure of run_one (lines 84-86): a non-blocking iteration unless the
\* flag is set.
RunOneBody(t) ==
    /\ InLoop(t)
    /\ Top(t).kind = "run_one"
    /\ Top(t).pc = 0
    /\ IF terminated[Top(t).loop]
       THEN /\ stack' = SetTop(t, [Top(t) EXCEPT !.pc = 2])
            /\ UNCHANGED timers
       ELSE /\ stack' = SetTop(t, [Top(t) EXCEPT !.pc = 1, !.todo = Len(queue[Top(t).loop])])
            /\ timers' = Selected(Top(t).loop)
    /\ UNCHANGED <<nloops, owner, terminated, queue, reg, current_loop, panicking,
                   last, x, now>>

\* Backend::run_one: take the next due callback and call it.
BackendDispatch(t) ==
    /\ InLoop(t)
    /\ Top(t).pc = 1
    /\ Top(t).todo > 0
    /\ queue[Top(t).loop] # <<>>
    /\ LET l == Top(t).loop
           id == Head(queue[l])
       IN /\ queue' = [queue EXCEPT ![l] = Tail(@)]
          /\ reg' = [reg EXCEPT ![id].st = "running"]
          /\ stack' = [stack EXCEPT ![t] =
                 Append(SetTop(t, [Top(t) EXCEPT !.todo = @ - 1])[t], CbFrame(l, id))]
    /\ UNCHANGED <<nloops, owner, terminated, current_loop, panicking, last, x, now, timers>>

\* Backend::run_one returns: back to the flag test of run, or to the end of the
\* closure of run_one.
BackendReturn(t) ==
    /\ InLoop(t)
    /\ Top(t).pc = 1
    /\ (Top(t).todo = 0 \/ queue[Top(t).loop] = <<>>)
    /\ \A id \in DOMAIN reg : ~(timers[id].loop = Top(t).loop /\ timers[id].sel)
    /\ stack' = SetTop(t, [Top(t) EXCEPT !.pc = IF Top(t).kind = "run" THEN 0 ELSE 2,
                                         !.todo = 0])
    /\ UNCHANGED <<nloops, owner, terminated, queue, reg, current_loop, panicking,
                   last, x, now, timers>>

\* A callback body: panic!()
Panic(t) ==
    /\ ClientAt(t, Op("panic", 0, "-", 0, FALSE))
    /\ panicking' = [panicking EXCEPT ![t] = "explicit"]
    /\ UNCHANGED <<nloops, owner, terminated, queue, reg, current_loop, stack,
                   last, x, now, timers>>

\* A callback body: x.set(v)
SetX(t) ==
    \E v \in 0 .. 2 :
        /\ ClientAt(t, Op("set", 0, "-", v, FALSE))
        /\ x' = v
        /\ stack' = [stack EXCEPT ![t] = Advance(t)]
        /\ UNCHANGED <<nloops, owner, terminated, queue, reg, current_loop,
                       panicking, last, now, timers>>

\* A callback body: assert_eq!(x.get(), v)
CheckX(t) ==
    \E v \in 0 .. 2 :
        /\ ClientAt(t, Op("check", 0, "-", v, FALSE))
        /\ IF x = v
           THEN /\ stack' = [stack EXCEPT ![t] = Advance(t)]
                /\ UNCHANGED panicking
           ELSE /\ panicking' = [panicking EXCEPT ![t] = "assert"]
                /\ UNCHANGED stack
        /\ UNCHANGED <<nloops, owner, terminated, queue, reg, current_loop,
                       last, x, now, timers>>

\* The record of a callback that has ended: its closure is dropped.
Ended(r, how) == [r EXCEPT !.st = how, !.name = "-"]

\* Backend::run_one: an Interval callback that returned true is due again one
\* period after the time it was due.
Rearmed(id) == [timers EXCEPT ![id].due = @ + timers[id].period]

\* A callback body ends: back in Backend::run_one, which drops the callback or,
\* when it is an Interval callback that returned true, arms it again.
CbReturn(t) ==
    /\ stack[t] # <<>>
    /\ panicking[t] = "none"
    /\ Top(t).type = "cb"
    /\ reg[Top(t).cb].name # "free" => Top(t).pc > Len(Script(reg[Top(t).cb].name))
    /\ IF timers[Top(t).cb].kind = "interval" /\ Again(reg[Top(t).cb].name)
       THEN /\ reg' = [reg EXCEPT ![Top(t).cb].st = "pending"]
            /\ timers' = Rearmed(Top(t).cb)
       ELSE /\ reg' = [reg EXCEPT ![Top(t).cb] = Ended(@, "done")]
            /\ UNCHANGED timers
    /\ stack' = [stack EXCEPT ![t] = Pop(t)]
    /\ UNCHANGED <<nloops, owner, terminated, queue, current_loop, panicking,
                   last, x, now>>

\* A panic leaves a callback and Backend::run_one, which catch nothing.
UnwindCallback(t) ==
    /\ stack[t] # <<>>
    /\ panicking[t] # "none"
    /\ Top(t).type = "cb"
    /\ reg' = [reg EXCEPT ![Top(t).cb] = Ended(@, panicking[t])]
    /\ stack' = [stack EXCEPT ![t] = Pop(t)]
    /\ UNCHANGED <<nloops, owner, terminated, queue, current_loop, panicking,
                   last, x, now, timers>>

\* Mutation: lines 65-69 with a loop that a panic poisons, the flag is set
\* when the closure panicked.
WithCurrentLoopExitPoisons(t) ==
    /\ stack[t] # <<>>
    /\ Top(t).type = "loop"
    /\ (Top(t).pc = 2 \/ panicking[t] # "none")
    /\ current_loop' = ClearRegistry(t)
    /\ stack' = [stack EXCEPT ![t] = Pop(t)]
    /\ terminated' = IF panicking[t] # "none" THEN quit(Top(t).loop) ELSE terminated
    /\ LET e == ResumeUnwind(panicking[t])
       IN IF e = "none"
          THEN /\ last' = [last EXCEPT ![t] = Event("returned", Top(t).loop, Top(t).kind)]
               /\ panicking' = [panicking EXCEPT ![t] = "none"]
          ELSE IF Top(t).caught
          THEN /\ last' = [last EXCEPT ![t] = Event("caught", Top(t).loop, e)]
               /\ panicking' = [panicking EXCEPT ![t] = "none"]
          ELSE /\ panicking' = [panicking EXCEPT ![t] = e]
               /\ UNCHANGED last
    /\ UNCHANGED <<nloops, owner, queue, reg, x, now, timers>>

\* with_current_loop, lines 65-69: the closure has returned or panicked; the
\* registry is cleared, and a panic goes on to the caller of run or run_one,
\* which catches it when the call site is one that does.
WithCurrentLoopExit(t) ==
    /\ stack[t] # <<>>
    /\ Top(t).type = "loop"
    /\ (Top(t).pc = 2 \/ panicking[t] # "none")
    /\ current_loop' = ClearRegistry(t)
    /\ stack' = [stack EXCEPT ![t] = Pop(t)]
    /\ LET e == ResumeUnwind(panicking[t])
       IN IF e = "none"
          THEN /\ last' = [last EXCEPT ![t] = Event("returned", Top(t).loop, Top(t).kind)]
               /\ panicking' = [panicking EXCEPT ![t] = "none"]
          ELSE IF Top(t).caught
          THEN /\ last' = [last EXCEPT ![t] = Event("caught", Top(t).loop, e)]
               /\ panicking' = [panicking EXCEPT ![t] = "none"]
          ELSE /\ panicking' = [panicking EXCEPT ![t] = e]
               /\ UNCHANGED last
    /\ UNCHANGED <<nloops, owner, terminated, queue, reg, x, now, timers>>

\* Backend::push of a Delayed or Interval callback on loop l's backend.
BackendPushTimer(l, kind, d) ==
    [timers EXCEPT ![Len(reg) + 1] = Timer(l, kind, d, now)]

\* Mutation: line 53 with CbKind::asap, the duration is dropped and the
\* callback is due at once.
CallAfterAtOnce(t) ==
    \E l \in Loops, d \in 1 .. MaxDelay :
        /\ ClientAt(t, Op("call_after", l, "term", d, FALSE))
        /\ Len(reg) < MaxCbs
        /\ timers' = [timers EXCEPT ![Len(reg) + 1] =
                          [Timer(l, "after", d, now) EXCEPT !.due = now]]
        /\ reg' = BackendPushReg("term", Running(t))
        /\ last' = [last EXCEPT ![t] = Event("ok", l, "-")]
        /\ stack' = [stack EXCEPT ![t] = Advance(t)]
        /\ UNCHANGED <<nloops, owner, terminated, queue, current_loop, panicking,
                       x, now>>

\* MainLoop::call_after, with the callback of the test after (line 139).
CallAfter(t) ==
    \E l \in Loops, d \in 1 .. MaxDelay :
        /\ ClientAt(t, Op("call_after", l, "term", d, FALSE))
        /\ Len(reg) < MaxCbs
        /\ timers' = BackendPushTimer(l, "after", d)
        /\ reg' = BackendPushReg("term", Running(t))
        /\ last' = [last EXCEPT ![t] = Event("ok", l, "-")]
        /\ stack' = [stack EXCEPT ![t] = Advance(t)]
        /\ UNCHANGED <<nloops, owner, terminated, queue, current_loop, panicking,
                       x, now>>

\* MainLoop::call_interval, with the callbacks and durations of the test
\* interval.
CallInterval(t) ==
    \E l \in Loops, n \in IntervalScripts :
        /\ ClientAt(t, Op("call_interval", l, n, Period(n), FALSE))
        /\ Len(reg) < MaxCbs
        /\ timers' = BackendPushTimer(l, "interval", Period(n))
        /\ reg' = BackendPushReg(n, Running(t))
        /\ last' = [last EXCEPT ![t] = Event("ok", l, "-")]
        /\ stack' = [stack EXCEPT ![t] = Advance(t)]
        /\ UNCHANGED <<nloops, owner, terminated, queue, current_loop, panicking,
                       x, now>>

\* Backend::run_one: call one of the timed callbacks this iteration fires.
TimerDispatch(t) ==
    /\ InLoop(t)
    /\ Top(t).pc = 1
    /\ \E id \in DOMAIN reg :
           /\ timers[id].loop = Top(t).loop
           /\ timers[id].sel
           /\ reg' = [reg EXCEPT ![id].st = "running"]
           /\ timers' = [timers EXCEPT ![id].sel = FALSE, ![id].fired = @ + 1]
           /\ stack' = [stack EXCEPT ![t] = Append(@, CbFrame(Top(t).loop, id))]
    /\ UNCHANGED <<nloops, owner, terminated, queue, current_loop, panicking,
                   last, x, now>>

\* The body of tick_x, line 160: if x >= 4 { terminate(); }
TerminateAt(t) ==
    /\ ClientAt(t, Op("terminate_at", 0, "-", Firings, FALSE))
    /\ IF timers[Top(t).cb].fired >= Firings
       THEN /\ terminated' = IF AmbientLoop(t) # None THEN quit(AmbientLoop(t))
                             ELSE terminated
            /\ last' = [last EXCEPT ![t] = Event("unit", 0, "-")]
       ELSE UNCHANGED <<terminated, last>>
    /\ stack' = [stack EXCEPT ![t] = Advance(t)]
    /\ UNCHANGED <<nloops, owner, queue, reg, current_loop, panicking, x, now,
                   timers>>

\* Time passes while run is between two iterations, which is where a blocking
\* iteration waits and where the backend reads the clock.  The calls of the
\* top level and the callbacks take no time.
Tick ==
    /\ now < MaxTime
    /\ InLoop("A")
    /\ Top("A").kind = "run"
    /\ Top("A").pc = 0
    /\ now' = now + 1
    /\ UNCHANGED <<nloops, owner, terminated, queue, reg, current_loop, stack,
                   panicking, last, x, timers>>

\* The steps of thread t whose callbacks are those of Names.
Step(t, Names) ==
    \/ New(t)
    \/ Quit(t)
    \/ CallAsap(t, Names)
    \/ CallInternal(t, Names)
    \/ Terminate(t)
    \/ WithCurrentLoop(t)
    \/ RunBody(t)
    \/ RunOneBody(t)
    \/ BackendDispatch(t)
    \/ BackendReturn(t)
    \/ CbReturn(t)
    \/ UnwindCallback(t)
    \/ WithCurrentLoopExit(t)

\* One thread, callbacks with any body.
Next == Step("A", {"free"}) \/ Panic("A")

Spec == Init /\ [][Next]_vars

\* One thread, callbacks with any body that does not call panic!: every
\* backend iteration returns, but for a rejected nested run.
NextNoPanic == Step("A", {"free"})

\* The thread that is inside run or run_one goes on executing: the steps of a
\* thread with an activation on its stack are taken as long as one is possible.
InsideNext == ~AtMain("A") /\ NextNoPanic

FairSpec == Init /\ [][NextNoPanic]_vars /\ WF_vars(InsideNext)

\* One thread, the callbacks of the tests.
NextTests == Step("A", TestScripts) \/ SetX("A") \/ CheckX("A")

SpecTests == Init /\ [][NextTests]_vars

\* The tests after and interval: one loop has been constructed, the top level
\* registers timed callbacks on it and runs it, and time passes.
InitTimers ==
    /\ nloops = 1
    /\ owner = [l \in Loops |-> "A"]
    /\ terminated = [l \in Loops |-> FALSE]
    /\ queue = [l \in Loops |-> <<>>]
    /\ reg = <<>>
    /\ current_loop = [t \in Threads |-> None]
    /\ stack = [t \in Threads |-> <<>>]
    /\ panicking = [t \in Threads |-> "none"]
    /\ last = [t \in Threads |-> Event("none", 0, "-")]
    /\ x = 0
    /\ now = 0
    /\ timers = [id \in 1 .. MaxCbs |-> NoTimer]

NextTimers ==
    \/ CallAfter("A")
    \/ CallInterval("A")
    \/ Quit("A")
    \/ WithCurrentLoop("A")
    \/ RunBody("A")
    \/ RunOneBody("A")
    \/ TimerDispatch("A")
    \/ BackendReturn("A")
    \/ SetX("A")
    \/ Terminate("A")
    \/ TerminateAt("A")
    \/ CbReturn("A")
    \/ WithCurrentLoopExit("A")
    \/ Tick

SpecTimers == InitTimers /\ [][NextTimers]_vars

\* Two threads, each with the loops it constructed (MainLoop is !Send: a loop
\* is used by the thread that owns it) and the callback of the test borrowed.
ThreadStep(t) ==
    \/ New(t)
    \/ CallAsap(t, {"term"})
    \/ CallInternal(t, {"term"})
    \/ Terminate(t)
    \/ WithCurrentLoop(t)
    \/ RunBody(t)
    \/ RunOneBody(t)
    \/ BackendDispatch(t)
    \/ BackendReturn(t)
    \/ SetX(t)
    \/ CbReturn(t)
    \/ WithCurrentLoopExit(t)

NextThreads == ThreadStep("A") \/ ThreadStep("B")

SpecThreads == Init /\ [][NextThreads]_vars
----------------------------------------------------------------------------
\* The claims.

LoopFrames(t) == {i \in DOMAIN stack[t] : stack[t][i].type = "loop"}
CbFrames(t) == {i \in DOMAIN stack[t] : stack[t][i].type = "cb"}
Ids == DOMAIN reg

\* The step of thread t is the end of a run or run_one activation.
Exits(t) ==
    /\ stack[t] # <<>>
    /\ Top(t).type = "loop"
    /\ stack'[t] = Pop(t)

\* C1: on every thread at most one run/run_one activation exists, it is the
\* bottom of the stack and the registry names its loop; a call that finds the
\* registry occupied has no activation, and its reentrancy fault is unwinding
\* out of the one backend iteration in progress; so at most one callback, of
\* one backend iteration, is executing.
C1_OneLoopPerThread ==
    \A t \in Threads :
        /\ Cardinality(LoopFrames(t)) <= 1
        /\ Cardinality(CbFrames(t)) <= 1
        /\ LoopFrames(t) # {} =>
               /\ stack[t][1].type = "loop"
               /\ current_loop[t] = stack[t][1].loop
        /\ panicking[t] = "Reentrant" =>
               /\ LoopFrames(t) # {}
               /\ stack[t][1].pc = 1

\* A nested run has just been rejected inside a callback of the running loop.
C1_Witness ==
    /\ panicking["A"] = "Reentrant"
    /\ last["A"].ev = "raised"
    /\ Len(stack["A"]) = 2
    /\ current_loop["A"] = stack["A"][1].loop

\* C2: the registry of a thread is empty whenever no run/run_one activation is
\* on its stack: every exit of with_current_loop, by return or by panic, has
\* cleared it.
C2_RegistryClearedOnExit ==
    \A t \in Threads : LoopFrames(t) = {} => current_loop[t] = None

\* run has exited by the panic of a callback, and the registry is empty.
C2_Witness ==
    /\ AtMain("A")
    /\ last["A"].ev = "caught"
    /\ last["A"].val = "explicit"
    /\ current_loop["A"] = None

\* C3: when the closure of run/run_one has panicked, with_current_loop ends
\* with the registry cleared and the same panic going on to its caller: the
\* call site that catches gets that payload, any other keeps unwinding with
\* it, and the call never reports a normal return.
C3_FaultPropagates ==
    [][\A t \in Threads :
          (Exits(t) /\ panicking[t] # "none") =>
              /\ current_loop'[t] = None
              /\ last'[t].ev # "returned"
              /\ IF Top(t).caught
                 THEN /\ panicking'[t] = "none"
                      /\ last'[t] = Event("caught", Top(t).loop, panicking[t])
                 ELSE panicking'[t] = panicking[t]]_vars

\* The caller of run holds the panic of a callback that ended by it.
C3_Witness ==
    /\ AtMain("A")
    /\ last["A"] = Event("caught", 1, "explicit")
    /\ \E id \in Ids : reg[id].st = "explicit"
    /\ ~terminated[1]

\* C4: a run or run_one made inside a callback never registers: on a loop
\* that is not terminated it ends with the reentrancy fault; and once that
\* fault has left the outer run and was caught at the top level, the registry
\* is empty and the next run or run_one at the top level, on a loop that is
\* not terminated, registers that loop.
C4_RejectedThenRecovers ==
    [][\A t \in Threads :
          /\ (~AtMain(t) /\ last'[t] # last[t]) => last'[t].ev # "registered"
          /\ (~AtMain(t) /\ Len(stack'[t]) > Len(stack[t])) =>
                 stack'[t][Len(stack'[t])].type = "cb"
          /\ (AtMain(t) /\ last[t].ev = "caught" /\ last[t].val = "Reentrant") =>
                 /\ current_loop[t] = None
                 /\ \A l \in Loops :
                        (last'[t] # last[t] /\ last'[t].loop = l /\ ~terminated[l]
                         /\ last'[t].ev \in {"registered", "raised", "caught", "skipped"})
                        => /\ last'[t].ev = "registered"
                           /\ current_loop'[t] = l
                           /\ Len(stack'[t]) = 1
                           /\ stack'[t][1].loop = l]_vars

\* A callback ended by the reentrancy fault of a nested run, the fault left the
\* outer run, and a later run at the top level is executing a callback.
C4_Witness ==
    /\ \E id \in Ids : reg[id].st = "Reentrant"
    /\ Len(stack["A"]) = 2
    /\ stack["A"][1].kind = "run"
    /\ stack["A"][1].pc = 1
    /\ panicking["A"] = "none"
    /\ current_loop["A"] = stack["A"][1].loop

CaughtReentrant(t) == last[t].ev = "caught" /\ last[t].val = "Reentrant"

\* C5 as stated: wherever the reentrancy fault is caught, inside the callback
\* that made the rejected call too, the registry is empty.  (Stated for a
\* rejected call on a second loop: the borrow of run(&mut self) keeps a
\* callback from calling run on the loop that is running it.)
C5_Original ==
    \A t \in Threads :
        (CaughtReentrant(t) /\ (~AtMain(t) => last[t].loop # stack[t][1].loop))
            => current_loop[t] = None

\* C5, amended: the rejected call leaves the registry as it was.  Caught above
\* the outer run, the fault finds the registry empty; caught inside the
\* callback, it finds the registry naming the loop whose iteration is in
\* progress, so that a run made there is rejected again.
C5_RestoredAboveOuterRun ==
    \A t \in Threads :
        CaughtReentrant(t) =>
            IF AtMain(t)
            THEN current_loop[t] = None
            ELSE /\ stack[t][1].type = "loop"
                 /\ current_loop[t] = stack[t][1].loop
                 /\ Reentrant(t)

\* The reentrancy fault of a nested run was caught above the outer run.
C5_Witness ==
    /\ AtMain("A")
    /\ CaughtReentrant("A")
    /\ \E id \in Ids : reg[id].st = "Reentrant"
    /\ current_loop["A"] = None

\* C6: a new loop starts with the flag false, a step changes the flags only by
\* setting one of an existing loop to true (quit, terminate), and a flag that
\* is true stays true.
C6_TerminatedMonotonic ==
    [][/\ \A l \in Loops :
              /\ terminated[l] => terminated'[l]
              /\ (l > nloops /\ l <= nloops') => ~terminated'[l]
              /\ (terminated'[l] /\ ~terminated[l]) => l <= nloops
       /\ terminated' # terminated =>
              \E l \in Loops : terminated' = [terminated EXCEPT ![l] = TRUE]]_vars

\* The flag a callback set is still set when a later run finds it.
C6_Witness ==
    /\ terminated[1]
    /\ last["A"] = Event("skipped", 1, "run")
    /\ \E id \in Ids : reg[id].st = "done"

\* Loop l has a run/run_one activation on the stack s.
LoopOn(s, l) == \E i \in DOMAIN s : s[i].type = "loop" /\ s[i].loop = l

\* Sequence q begins with sequence p.
Extends(q, p) == Len(q) >= Len(p) /\ SubSeq(q, 1, Len(p)) = p

\* C7: while the flag of a loop is set and the loop is not running, no step
\* gives it an activation or takes a callback out of its backend; a run or
\* run_one on it only returns, changing neither the stack depth, nor the
\* registry, nor raising a panic.
C7_QuitBeforeRun ==
    [][\A l \in Loops :
          (terminated[l] /\ \A u \in Threads : ~LoopOn(stack[u], l)) =>
              /\ \A u \in Threads : ~LoopOn(stack'[u], l)
              /\ Extends(queue'[l], queue[l])
              /\ \A t \in Threads :
                     (last'[t] # last[t] /\ last'[t].loop = l /\ last'[t].ev # "ok") =>
                         /\ last'[t].ev = "skipped"
                         /\ Len(stack'[t]) = Len(stack[t])
                         /\ current_loop' = current_loop
                         /\ panicking' = panicking]_vars

\* run on a loop that was quit returned at once, its callback still pending.
C7_Witness ==
    /\ AtMain("A")
    /\ terminated[1]
    /\ last["A"] = Event("skipped", 1, "run")
    /\ queue[1] # <<>>
    /\ \A id \in Ids : reg[id].st = "pending"

\* Loop l has an activation of run (not run_one) on some stack.
RunOn(l) ==
    \E t \in Threads : \E i \in DOMAIN stack[t] :
        stack[t][i].type = "loop" /\ stack[t][i].kind = "run" /\ stack[t][i].loop = l

\* C8: the closure of run ends, and run returns, only with the flag set; at
\* its flag test with the flag not set, the step run takes is the start of a
\* backend iteration; and whenever the flag is set while run is on the stack,
\* run later leaves the stack (every backend iteration of the model returns).
\* The flag is never cleared, so this is: again and again, no run is on the
\* stack for a terminated loop.
C8_RunUntilTerminated ==
    /\ [](\A t \in Threads :
            /\ (last[t].ev = "returned" /\ last[t].val = "run")
                   => terminated[last[t].loop]
            /\ \A i \in LoopFrames(t) :
                   (stack[t][i].kind = "run" /\ stack[t][i].pc = 2)
                       => terminated[stack[t][i].loop])
    /\ [][\A t \in Threads :
             (/\ InLoop(t)
              /\ Top(t).kind = "run"
              /\ Top(t).pc = 0
              /\ ~terminated[Top(t).loop]
              /\ stack'[t] # stack[t])
             => /\ Len(stack'[t]) = Len(stack[t])
                /\ stack'[t][Len(stack'[t])].pc = 1
                /\ stack'[t][Len(stack'[t])].todo > 0]_vars
    /\ []<>(\A l \in Loops : ~(RunOn(l) /\ terminated[l]))

\* run has returned after a callback it executed set the flag.
C8_Witness ==
    /\ AtMain("A")
    /\ last["A"] = Event("returned", 1, "run")
    /\ terminated[1]
    /\ \E id \in Ids : reg[id].st = "done"

Range(q) == {q[i] : i \in DOMAIN q}

\* C9: a run on a loop that is not terminated is never skipped, and when the
\* closure of run has returned, every callback that was registered before the
\* run was entered has left the backend of its loop and has ended: the only
\* callbacks still pending there were registered during the run.
C9_AsapRunsBeforeReturn ==
    \A t \in Threads :
        /\ last[t].ev = "skipped" => terminated[last[t].loop]
        /\ \A i \in LoopFrames(t) :
               (stack[t][i].kind = "run" /\ stack[t][i].pc = 2) =>
                   /\ \A id \in Range(queue[stack[t][i].loop]) : id > stack[t][i].mark
                   /\ \A id \in Ids :
                          (id <= stack[t][i].mark /\ reg[id].st \in {"pending", "running"})
                              => \E l \in Loops \ {stack[t][i].loop} : id \in Range(queue[l])

\* run is about to return, and the callback registered before it has run.
C9_Witness ==
    /\ Len(stack["A"]) = 1
    /\ stack["A"][1].kind = "run"
    /\ stack["A"][1].pc = 2
    /\ stack["A"][1].mark = 1
    /\ reg[1].parent = 0
    /\ reg[1].st = "done"

\* C10 (the callbacks of the tests): callbacks never nest; a callback
\* submitted through call_internal by a running callback is pending, in the
\* backend of the loop that runs the submitter, for as long as the submitter
\* runs, and runs only when the submitter has ended.  When asap_static's two
\* callbacks are the only ones (outer, and inner submitted by it), inner never
\* fails its assertion: it starts with x = 1, ends with x = 2, and a run that
\* returns has executed it.
C10_AmbientChaining ==
    \A t \in Threads :
        /\ Cardinality(CbFrames(t)) <= 1
        /\ \A id \in Ids :
               reg[id].parent # 0 =>
                   /\ reg[id].st # "pending" =>
                          reg[reg[id].parent].st \notin {"pending", "running"}
                   /\ (~AtMain(t) /\ Top(t).type = "cb" /\ Top(t).cb = reg[id].parent) =>
                          /\ reg[id].st = "pending"
                          /\ id \in Range(queue[Top(t).loop])
        /\ (Len(reg) = 2 /\ reg[2].parent = 1) =>
               /\ reg[2].st \in {"pending", "running", "done"}
               /\ (~AtMain(t) /\ Top(t).type = "cb" /\ Top(t).cb = 2 /\ Top(t).pc = 1)
                      => x = 1
               /\ reg[2].st = "done" => x = 2
               /\ (last[t].ev = "returned" /\ last[t].val = "run")
                      => (reg[2].st = "done" /\ x = 2)

\* asap_static: run has returned, inner has run after outer, and x is 2.
C10_Witness ==
    /\ AtMain("A")
    /\ Len(reg) = 2
    /\ reg[2].parent = 1
    /\ reg[1].st = "done"
    /\ reg[2].st = "done"
    /\ last["A"].ev = "returned"
    /\ last["A"].val = "run"
    /\ x = 2

\* C11: a step of call_internal taken while the registry of the calling thread
\* is empty yields the error NoMainLoop and changes nothing else: no backend
\* gets a callback, and the registry and the flags are as before.
C11_NoLoopSubmitFails ==
    [][\A t \in Threads :
          (CallInternal(t, {"free"}) /\ current_loop[t] = None) =>
              /\ last'[t] = Event("err", 0, "NoMainLoop")
              /\ queue' = queue
              /\ reg' = reg
              /\ current_loop' = current_loop
              /\ terminated' = terminated]_vars

\* The top level got NoMainLoop while a loop had a callback pending.
C11_Witness ==
    /\ AtMain("A")
    /\ last["A"] = Event("err", 0, "NoMainLoop")
    /\ nloops >= 1
    /\ queue[1] # <<>>
    /\ current_loop["A"] = None

\* C12: a step of terminate taken while the registry of the calling thread is
\* empty raises nothing and returns unit, and leaves every flag and the
\* registry as they were.
C12_NoLoopTerminateNoop ==
    [][\A t \in Threads :
          (Terminate(t) /\ current_loop[t] = None) =>
              /\ last'[t] = Event("unit", 0, "-")
              /\ panicking' = panicking
              /\ terminated' = terminated
              /\ current_loop' = current_loop
              /\ queue' = queue
              /\ reg' = reg]_vars

\* The top level has called terminate (quit would have set a flag) with loops
\* constructed and none of them terminated.
C12_Witness ==
    /\ AtMain("A")
    /\ last["A"] = Event("unit", 0, "-")
    /\ nloops = MaxLoops
    /\ \A l \in Loops : ~terminated[l]
    /\ current_loop["A"] = None

\* C13 (the timed callbacks of the tests): a Delayed callback pushed at time
\* at with duration D fires at most once and at no time before at + D; and when
\* a run returns on a loop whose callbacks are all Delayed ones, one of them
\* has fired and requested the termination, and the time is at least its
\* at + D.
C13_DelayLowerBound ==
    /\ \A id \in Ids :
           timers[id].kind = "after" =>
               /\ timers[id].fired <= 1
               /\ timers[id].due = timers[id].at + timers[id].period
               /\ (timers[id].fired = 1 \/ timers[id].sel)
                      => now >= timers[id].at + timers[id].period
    /\ \A l \in Loops :
           (/\ last["A"] = Event("returned", l, "run")
            /\ \A id \in Ids : timers[id].kind = "after")
               => \E id \in Ids : /\ timers[id].loop = l
                                  /\ timers[id].fired = 1
                                  /\ now >= timers[id].at + timers[id].period

\* The test after: run has returned, the one callback has fired after the
\* longest delay, and x is set.
C13_Witness ==
    /\ last["A"] = Event("returned", 1, "run")
    /\ Len(reg) = 1
    /\ timers[1].kind = "after"
    /\ timers[1].period = MaxDelay
    /\ timers[1].fired = 1
    /\ x = 1
    /\ now >= MaxDelay

\* The step fires the timed callback id.
Fires(id) == timers'[id].fired > timers[id].fired

\* The test interval: tick_y then tick_x are the two callbacks registered.
IntervalTest ==
    /\ Len(reg) = 2
    /\ timers[1].kind = "interval"
    /\ timers[1].period = Period150
    /\ timers[2].kind = "interval"
    /\ timers[2].period = Period100

\* C14 (the timed callbacks of the tests): an Interval callback that returns
\* true (tick_x) is pending again, due one period after the time it was due,
\* and one that returns false (tick_y) is dropped and never fires again; a callback fires only
\* inside an iteration, an iteration starts only with the flag not set, and
\* each firing is at or after the time the callback is due.  In the test
\* interval, when run has returned, tick_y has fired once and tick_x four
\* times, and at least Firings * Period100 units of time have passed since the
\* test started.
C14_IntervalFirings ==
    /\ [][\A id \in DOMAIN reg :
            /\ (timers[id].kind = "interval" /\ reg[id].st = "running"
                    /\ reg'[id].st # "running" /\ panicking["A"] = "none") =>
                   IF reg[id].name = "tick_x"
                   THEN /\ reg'[id].st = "pending"
                        /\ timers'[id].due = timers[id].due + timers[id].period
                   ELSE reg'[id].st = "done"
            /\ reg[id].st = "done" => ~Fires(id)
            /\ Fires(id) =>
                   /\ InLoop("A")
                   /\ Top("A").pc = 1
                   /\ Top("A").loop = timers[id].loop
                   /\ timers[id].due <= now
                   /\ timers'[id].fired = timers[id].fired + 1]_vars
    /\ [][(InLoop("A") /\ Top("A").pc = 0 /\ stack'["A"] # stack["A"]
             /\ stack'["A"][Len(stack'["A"])].pc = 1)
              => ~terminated[Top("A").loop]]_vars
    /\ [](\A id \in Ids :
            timers[id].kind = "interval" /\ timers[id].fired > 0 =>
                now >= timers[id].at + timers[id].fired * timers[id].period)
    /\ []((IntervalTest /\ last["A"] = Event("returned", 1, "run")) =>
             /\ timers[1].fired = 1
             /\ reg[1].st = "done"
             /\ timers[2].fired = Firings
             /\ now >= timers[1].at + Firings * Period100)

\* The test interval at its end: one firing of tick_y, four of tick_x, at the
\* earliest time possible.
C14_Witness ==
    /\ IntervalTest
    /\ AtMain("A")
    /\ last["A"] = Event("returned", 1, "run")
    /\ timers[1].fired = 1
    /\ timers[2].fired = Firings
    /\ now = Firings * Period100

\* The activations of run_one on the stack of t.
RunOneFrames(t) == {i \in LoopFrames(t) : stack[t][i].kind = "run_one"}

\* C15: an activation of run_one exists only for a loop that was not
\* terminated at the call, starts its one iteration without waiting (the step
\* is enabled whatever is pending), never goes back to start a second one, and
\* ends when that iteration has returned, the flag set or not; the flag
\* changes only in a step of quit or terminate, never in a step of run_one
\* itself; and a call of run or run_one by the top level registers the loop
\* exactly when its flag is not set.
C15_RunOneSingleIteration ==
    /\ [](\A t \in Threads : \A i \in RunOneFrames(t) :
            /\ stack[t][i].pc = 0 =>
                   /\ ~terminated[stack[t][i].loop]
                   /\ i = Len(stack[t])
                   /\ panicking[t] = "none" => ENABLED RunOneBody(t)
            /\ (stack[t][i].pc = 2 /\ panicking[t] = "none")
                   => ENABLED WithCurrentLoopExit(t))
    /\ [][\A t \in Threads : \A i \in RunOneFrames(t) :
            i <= Len(stack'[t]) =>
                /\ stack'[t][i].pc >= stack[t][i].pc
                /\ (stack[t][i].pc = 0 /\ stack'[t][i].pc # 0) =>
                       /\ stack'[t][i].pc = 1
                       /\ stack'[t][i].todo = Len(queue[stack[t][i].loop])
                /\ (stack[t][i].pc = 1 /\ stack'[t][i].pc # 1) =>
                       /\ stack'[t][i].pc = 2
                       /\ Len(stack'[t]) = i]_vars
    /\ [][terminated' # terminated => \E t \in Threads : Quit(t) \/ Terminate(t)]_vars
    /\ [][\A t \in Threads :
            (AtMain(t) /\ WithCurrentLoop(t)) =>
                (last'[t].ev = "registered" <=> ~terminated[last'[t].loop])]_vars

\* run_one has returned on a loop that is not terminated, after an iteration
\* that executed a callback, and the loop has a callback pending for the next.
C15_Witness ==
    /\ AtMain("A")
    /\ last["A"] = Event("returned", 1, "run_one")
    /\ ~terminated[1]
    /\ reg # <<>>
    /\ reg[1].st = "done"
    /\ queue[1] # <<>>

\* C16: a step of quit or terminate inside a callback changes the flag and
\* nothing else but the position of the callback, which goes on; an iteration
\* that still has callbacks to execute goes on executing them and cannot
\* return, the flag set or not; an activation ends only when its closure has
\* returned or a panic unwinds; and run, back at its test with the flag set,
\* ends its closure and starts no iteration.
C16_QuitTakesEffectBetweenIterations ==
    /\ [][\A t \in Threads :
            (~AtMain(t) /\ (Quit(t) \/ Terminate(t))) =>
                /\ stack'[t] = Advance(t)
                /\ queue' = queue
                /\ reg' = reg
                /\ current_loop' = current_loop
                /\ panicking' = panicking]_vars
    /\ [](\A t \in Threads :
            (InLoop(t) /\ Top(t).pc = 1 /\ Top(t).todo > 0
                 /\ queue[Top(t).loop] # <<>>) =>
                /\ ENABLED BackendDispatch(t)
                /\ ~ENABLED BackendReturn(t)
                /\ ~ENABLED WithCurrentLoopExit(t))
    /\ [][\A t \in Threads :
            (Exits(t) /\ panicking[t] = "none") => Top(t).pc = 2]_vars
    /\ [][\A t \in Threads : \A i \in LoopFrames(t) :
            (/\ stack[t][i].kind = "run"
             /\ i <= Len(stack'[t])
             /\ stack'[t][i].pc # stack[t][i].pc) =>
                CASE stack[t][i].pc = 0 ->
                         stack'[t][i].pc = IF terminated[stack[t][i].loop] THEN 2 ELSE 1
                  [] stack[t][i].pc = 1 -> stack'[t][i].pc = 0
                  [] OTHER -> FALSE]_vars

\* The first callback of an iteration of run has set the flag and ended, and
\* the second callback of the same iteration starts.
C16_Witness ==
    /\ Len(stack["A"]) = 2
    /\ stack["A"][1].kind = "run"
    /\ stack["A"][1].pc = 1
    /\ terminated[stack["A"][1].loop]
    /\ stack["A"][2].type = "cb"
    /\ stack["A"][2].cb = 2
    /\ stack["A"][2].pc = 1
    /\ reg[1].st = "done"
    /\ reg[1].parent = 0
    /\ reg[2].parent = 0

\* C17: a step of call_internal or terminate inside a callback acts on the
\* loop whose backend is executing the callback, and on no other: the new
\* callback is appended to that loop's pending callbacks and no flag changes,
\* or that loop's flag is set and no backend changes; the other loops' pending
\* callbacks and flags are as before.
C17_AmbientReachesRunningLoopOnly ==
    [][\A t \in Threads :
          (~AtMain(t) /\ Top(t).type = "cb") =>
              /\ CallInternal(t, {"free"}) =>
                     /\ last'[t] = Event("ok", Top(t).loop, "-")
                     /\ queue' = [queue EXCEPT ![Top(t).loop] = Append(@, Len(reg) + 1)]
                     /\ Len(reg') = Len(reg) + 1
                     /\ terminated' = terminated
              /\ Terminate(t) =>
                     /\ terminated' = [terminated EXCEPT ![Top(t).loop] = TRUE]
                     /\ queue' = queue
                     /\ reg' = reg]_vars

\* Two loops: a callback executed by the second has submitted a callback and
\* requested termination; the second loop has both, the first has neither.
C17_Witness ==
    /\ nloops = 2
    /\ Len(stack["A"]) = 2
    /\ stack["A"][1].loop = 2
    /\ stack["A"][2].type = "cb"
    /\ stack["A"][2].cb = 1
    /\ Len(reg) = 2
    /\ reg[2].parent = 1
    /\ queue[2] = <<2>>
    /\ queue[1] = <<>>
    /\ terminated[2]
    /\ ~terminated[1]

\* Some thread other than t has a loop registered.
OtherRegistered(t) == \E u \in Threads \ {t} : current_loop[u] # None

\* C18: the registry of a thread names only loops of that thread.  While
\* another thread has a loop registered, a thread with an empty registry gets
\* NoMainLoop from call_internal, which registers nothing, and nothing from
\* terminate, which sets no flag; its run or run_one registers its loop (or
\* returns at once on a terminated loop) and is never rejected as reentrant.
\* Whatever the interleaving, a step of call_internal or terminate leaves the
\* pending callbacks and the flags of the loops of other threads unchanged.
C18_RegistryPerThread ==
    /\ [](\A t \in Threads :
            current_loop[t] # None => owner[current_loop[t]] = t)
    /\ [][\A t \in Threads :
            /\ (OtherRegistered(t) /\ current_loop[t] = None) =>
                   /\ CallInternal(t, {"term"}) =>
                          /\ last'[t] = Event("err", 0, "NoMainLoop")
                          /\ queue' = queue
                          /\ reg' = reg
                   /\ Terminate(t) => terminated' = terminated
                   /\ WithCurrentLoop(t) =>
                          /\ last'[t].ev \in {"registered", "skipped"}
                          /\ panicking'[t] = "none"
                          /\ last'[t].ev = "registered" <=> ~terminated[last'[t].loop]
                          /\ \A u \in Threads \ {t} : current_loop'[u] = current_loop[u]
            /\ (CallInternal(t, {"term"}) \/ Terminate(t)) =>
                   \A l \in Loops :
                       owner[l] # t => /\ queue'[l] = queue[l]
                                       /\ terminated'[l] = terminated[l]]_vars

\* Thread A is inside a callback of its loop, which has requested termination,
\* and thread B has started run on a loop of its own: both registries are set,
\* each to the loop of its thread, and the loop of B is not terminated.
C18_Witness ==
    /\ current_loop["A"] # None
    /\ current_loop["B"] # None
    /\ owner[current_loop["B"]] = "B"
    /\ Len(stack["A"]) = 2
    /\ terminated[current_loop["A"]]
    /\ ~terminated[current_loop["B"]]
    /\ last["B"].ev = "registered"
    /\ last["B"].val = "run"
    /\ \A l \in Loops : queue[l] = <<>>

\* C19: a step of run or run_one on a loop whose flag is set, taken inside a
\* callback, is skipped: no panic is raised, the callback goes on, no
\* activation is pushed and no iteration starts, and the registry, the pending
\* callbacks and the flags are unchanged; the registry still names the loop
\* that is executing the callback.
C19_TerminatedBeforeReentrant ==
    [][\A t \in Threads :
          (~AtMain(t) /\ WithCurrentLoop(t) /\ terminated[last'[t].loop]) =>
              /\ last'[t].ev = "skipped"
              /\ panicking' = panicking
              /\ stack'[t] = Advance(t)
              /\ current_loop' = current_loop
              /\ current_loop'[t] = stack[t][1].loop
              /\ queue' = queue
              /\ reg' = reg
              /\ terminated' = terminated]_vars

\* A callback of the first loop has called run on the second loop, which is
\* terminated: the call was skipped, the first loop is the one registered and
\* the callback goes on.
C19_Witness ==
    /\ Len(stack["A"]) = 2
    /\ stack["A"][1].loop = 1
    /\ stack["A"][2].type = "cb"
    /\ last["A"] = Event("skipped", 2, "run")
    /\ terminated[2]
    /\ ~terminated[1]
    /\ current_loop["A"] = 1
    /\ panicking["A"] = "none"

\* C20: no step that raises a panic or unwinds one changes a flag, so the flag
\* of a loop after its caller has caught the panic is the flag at the time of
\* the panic; at the top level the registry is empty, and a run or run_one the
\* top level makes after it caught a panic registers the loop when the flag is
\* not set and is skipped when it is.
C20_FaultKeepsFlag ==
    /\ [][(\E t \in Threads : panicking[t] # "none" \/ panicking'[t] # "none")
              => terminated' = terminated]_vars
    /\ [](\A t \in Threads : AtMain(t) => current_loop[t] = None)
    /\ [][\A t \in Threads :
            (AtMain(t) /\ last[t].ev = "caught" /\ WithCurrentLoop(t)) =>
                IF terminated[last'[t].loop]
                THEN last'[t].ev = "skipped"
                ELSE /\ last'[t].ev = "registered"
                     /\ current_loop'[t] = last'[t].loop
                     /\ Len(stack'[t]) = 1
                     /\ stack'[t][1].pc = 0]_vars

\* The first callback of the only loop panicked and the top level caught it;
\* the flag is not set, and a later run of the loop is executing the second
\* callback.
C20_Witness ==
    /\ nloops = 1
    /\ Len(reg) = 2
    /\ reg[1].st = "explicit"
    /\ reg[2].st = "running"
    /\ Len(stack["A"]) = 2
    /\ stack["A"][1].kind = "run"
    /\ stack["A"][1].loop = 1
    /\ stack["A"][2].cb = 2
    /\ current_loop["A"] = 1
    /\ ~terminated[1]
====
